---- MODULE Spec2Model ----
(***************************************************************************)
(* Session runtime of ScarSignal (src/App.tsx and its services): the turn  *)
(* engine (handleInput, handleTurn, handleUseItem), the asynchronous asset *)
(* pipeline (triggerBackgroundGeneration), the audio playback manager      *)
(* (playAudio, stopAudio) and the persisted snapshot (loadState and the    *)
(* persistence effect).                                                    *)
(*                                                                         *)
(* The program runs on one event loop.  One action of the model is one     *)
(* callback run to completion: an event handler, or the continuation of an *)
(* await.  React state is read as the value of the last completed          *)
(* callback; a closure keeps the values of the render in which its handler *)
(* was called (handleTurn keeps `stats` across its await).                 *)
(*                                                                         *)
(* Identifiers made by generateId() are modelled by fresh naturals.  A     *)
(* generated image is the pair <<segment id, picture>>; log contents are   *)
(* short tags of the messages of the source.                               *)
(***************************************************************************)
EXTENDS Integers, Sequences, FiniteSets, TLC

\* ---- bounds of the model ----
MaxSegments == 3    \* segments the narrative collaborator returns in a run
MaxInFlight == 2    \* handleTurn calls awaiting their narrative at once
MaxEvents == 3      \* things the player does (inputs, clicks, item uses) in a run

SegIds == 1..MaxSegments

\* the pictures the image collaborator can return for a segment
Pictures == {1, 2}

\* ---- small helpers ----
Min(a, b) == IF a < b THEN a ELSE b

Max(a, b) == IF a > b THEN a ELSE b

Last(s) == s[Len(s)]

RemoveAt(s, i) == [k \in 1..(Len(s) - 1) |-> IF k < i THEN s[k] ELSE s[k + 1]]

Range(s) == {s[k] : k \in DOMAIN s}

\* ---- data ----
DEFAULT_IMAGE == <<0, 0>>

\* the deck ids `deck-NNN` that the random generator may produce
HostIds == {1, 2}

\* volume in hundredths; the slider stops of the model
Volumes == {0, 50, 100}

\* savedState?.volume ?? 0.5
DefaultVolume == 50

DefaultStats == [health |-> 100, wealth |-> 50, xp |-> 0]

\* currentSegment = null
NullSegment == [id |-> 0, visualPrompts |-> 0, options |-> 0,
                statUpdates |-> [health |-> 0, wealth |-> 0, xp |-> 0],
                hasStatUpdates |-> FALSE, loot |-> <<>>]

\* addLog: a fresh entry; options is the number of options it carries
Entry(type, content, options) ==
    [type |-> type, content |-> content, options |-> options, isRestored |-> FALSE]

StartMedkit == [id |-> 1, name |-> "Standard Medkit", type |-> "consumable",
                effectValue |-> 30, quantity |-> 1]

\* What the narrative collaborator may put in the loot list of a payload.
Prybar == [name |-> "Prybar", type |-> "tool", effectValue |-> 0]

\* effectValue is any INTEGER of the response schema, here a negative one
Bandage == [name |-> "Mag-Tape Bandage", type |-> "consumable", effectValue |-> -40]

\* The payloads the narrative collaborator returns in the model: statUpdates
\* may miss fields (Partial<PlayerStats>) or be absent altogether.
Payloads ==
    { [visualPrompts |-> 4, options |-> 2, hasStatUpdates |-> TRUE,
       statUpdates |-> [health |-> -10, wealth |-> 0, xp |-> 15],
       loot |-> <<Prybar>>],
      [visualPrompts |-> 1, options |-> 1, hasStatUpdates |-> TRUE,
       statUpdates |-> [health |-> -150, wealth |-> -70, xp |-> -20],
       loot |-> <<>>],
      [visualPrompts |-> 0, options |-> 1, hasStatUpdates |-> TRUE,
       statUpdates |-> [health |-> 130],
       loot |-> <<Bandage, Prybar>>] }

\* nextSegment.statUpdates?.k || 0
Delta(upd, k) == IF k \in DOMAIN upd THEN upd[k] ELSE 0

\* generateNextStorySegment: post-processing of a parsed payload
ProcessedLoot(segId, loot) ==
    [j \in DOMAIN loot |->
        [id |-> 10 * segId + j, name |-> loot[j].name, type |-> loot[j].type,
         effectValue |-> loot[j].effectValue, quantity |-> 1]]

MakeSegment(segId, p) ==
    [id |-> segId, visualPrompts |-> p.visualPrompts, options |-> p.options,
     statUpdates |-> p.statUpdates, hasStatUpdates |-> p.hasStatUpdates,
     loot |-> ProcessedLoot(segId, p.loot)]

VARIABLES
    log, history, currentSegment, imageUrls, stats, inventory,  \* session state
    saved,                  \* the record under STORAGE_KEY in localStorage
    loadingStage, isBackgroundLoading, isPlaying,               \* UI state
    currentSegmentIdRef,    \* 0 = null
    turns,                  \* handleTurn calls suspended at their await
    pipelines,              \* triggerBackgroundGeneration, one per segment
    audioSourceRef,         \* 0 = null, else the segment of the source
    sources,                \* AudioBufferSourceNodes, by segment
    decoding,               \* playAudio calls suspended at decodeAudioData
    gainNodeRef,            \* <<>> = null, else <<the target of gain>>
    nextId,                 \* next fresh segment id
    bootPc,                 \* runBootSequence: lines logged so far; BootDone = returned
    hostId, volume, isMuted,    \* session state: the deck id and the audio preferences
    storageFull,            \* localStorage.setItem throws (quota or permission)
    hasError,               \* ErrorBoundary: state.hasError
    events,                 \* what the player has done so far (bounds the run)
    requests                \* generateSceneImage: the calls of one pipeline

sessionVars == <<log, history, currentSegment, imageUrls, stats, inventory>>

audioVars == <<audioSourceRef, sources, decoding, isPlaying, gainNodeRef>>

prefVars == <<hostId, volume, isMuted>>

vars == <<log, history, currentSegment, imageUrls, stats, inventory, saved,
          loadingStage, isBackgroundLoading, isPlaying, currentSegmentIdRef,
          turns, pipelines, audioSourceRef, sources, decoding, nextId, bootPc,
          hostId, volume, isMuted, storageFull, hasError, events, requests, gainNodeRef>>

\* ---- persistence ----
\* localStorage.getItem(STORAGE_KEY) === null
NoSave == [present |-> FALSE]

\* JSON.stringify(stateToSave): the stored text, by what JSON.parse makes of
\* it.  form is "ok" for an object whose log and history are arrays; a record
\* written by anything else may be "unparseable", the text "null", or an
\* object whose log ("badlog") or history ("badhistory") is not an array, and
\* may lack fields.
Snapshot(l, h, c, i, s, inv, host, vol, muted) ==
    [present |-> TRUE, form |-> "ok", log |-> l, history |-> h, currentSegment |-> c,
     imageUrls |-> i, stats |-> s, inventory |-> inv,
     hostId |-> host, volume |-> vol, isMuted |-> muted]

\* The persistence effect, run after a render that changed a dependency, on a
\* store that held base: setItem throws when the store is full, and the
\* effect catches it.  The faulty variant gives up after a write that failed.
SaveOverOnce(base) ==
    saved' = IF storageFull
                  \/ base # Snapshot(log, history, currentSegment, imageUrls, stats,
                                     inventory, hostId, volume, isMuted)
             THEN base
             ELSE Snapshot(log', history', currentSegment', imageUrls', stats',
                           inventory', hostId', volume', isMuted')

\* the faulty variant that writes the state of the render before the change
SaveOverStale(base) ==
    saved' = IF storageFull THEN base
             ELSE Snapshot(log, history, currentSegment, imageUrls, stats,
                           inventory, hostId, volume, isMuted)

SaveOver(base) ==
    saved' = IF storageFull THEN base
             ELSE Snapshot(log', history', currentSegment', imageUrls', stats',
                           inventory', hostId', volume', isMuted')

Save == SaveOver(saved)

MarkRestored(l) == [k \in DOMAIN l |-> [l[k] EXCEPT !.isRestored = TRUE]]

\* savedState?.f || d, for a field that is never falsy when present
Field(sv, f, d) == IF f \in DOMAIN sv THEN sv[f] ELSE d

\* loadState: NoSave is its null.  deck is the id the generator would produce.
\* The faulty variant does not validate history.
loadStateLogOnly(sv, deck) ==
    IF ~sv.present THEN NoSave
    ELSE IF sv.form \in {"unparseable", "null"} THEN NoSave
    ELSE IF sv.form = "badlog" THEN NoSave
    ELSE [sv EXCEPT !.log = MarkRestored(sv.log)]
         @@ [inventory |-> <<>>, hostId |-> deck, volume |-> DefaultVolume, isMuted |-> FALSE]

\* the faulty variant that fills the four fields in whether stored or not
loadStateDefaults(sv, deck) ==
    IF ~sv.present THEN NoSave
    ELSE IF sv.form \in {"unparseable", "null", "badlog", "badhistory"} THEN NoSave
    ELSE [inventory |-> <<>>, hostId |-> deck, volume |-> DefaultVolume, isMuted |-> FALSE]
         @@ [sv EXCEPT !.log = MarkRestored(sv.log)]

loadState(sv, deck) ==
    IF ~sv.present THEN NoSave
    ELSE IF sv.form \in {"unparseable", "null"} THEN NoSave   \* JSON.parse or parsed.log throws
    ELSE IF sv.form = "badlog" THEN NoSave                    \* Corrupt Log Data
    ELSE IF sv.form = "badhistory" THEN NoSave                \* Corrupt History Data
    ELSE [sv EXCEPT !.log = MarkRestored(sv.log)]
         @@ [inventory |-> <<>>, hostId |-> deck, volume |-> DefaultVolume, isMuted |-> FALSE]

\* loadState followed by the useState initialisers; the faulty variant reads
\* the volume with || in place of ??
LoadedSessionOr(sv, deck) ==
    LET savedState == loadState(sv, deck) IN
    [log |-> Field(savedState, "log", <<>>),
     history |-> Field(savedState, "history", <<>>),
     currentSegment |-> Field(savedState, "currentSegment", NullSegment),
     imageUrls |-> Field(savedState, "imageUrls", <<DEFAULT_IMAGE>>),
     stats |-> Field(savedState, "stats", DefaultStats),
     inventory |-> Field(savedState, "inventory", <<>>),
     hostId |-> Field(savedState, "hostId", deck),
     volume |-> IF Field(savedState, "volume", 0) = 0 THEN DefaultVolume ELSE savedState.volume,
     isMuted |-> Field(savedState, "isMuted", FALSE)]

\* the faulty variant that takes a new deck id at every load
LoadedSessionNewDeck(sv, deck) ==
    LET savedState == loadState(sv, deck) IN
    [log |-> Field(savedState, "log", <<>>),
     history |-> Field(savedState, "history", <<>>),
     currentSegment |-> Field(savedState, "currentSegment", NullSegment),
     imageUrls |-> Field(savedState, "imageUrls", <<DEFAULT_IMAGE>>),
     stats |-> Field(savedState, "stats", DefaultStats),
     inventory |-> Field(savedState, "inventory", <<>>),
     hostId |-> deck,
     volume |-> Field(savedState, "volume", DefaultVolume),
     isMuted |-> Field(savedState, "isMuted", FALSE)]

LoadedSession(sv, deck) ==
    LET savedState == loadState(sv, deck) IN
    [log |-> Field(savedState, "log", <<>>),
     history |-> Field(savedState, "history", <<>>),
     currentSegment |-> Field(savedState, "currentSegment", NullSegment),
     imageUrls |-> Field(savedState, "imageUrls", <<DEFAULT_IMAGE>>),
     stats |-> Field(savedState, "stats", DefaultStats),
     inventory |-> Field(savedState, "inventory", <<>>),
     hostId |-> Field(savedState, "hostId", deck),
     volume |-> Field(savedState, "volume", DefaultVolume),
     isMuted |-> Field(savedState, "isMuted", FALSE)]

\* the generator is asked for a deck id when the record gives none
NeedsDeck(sv) == loadState(sv, 0) = NoSave \/ "hostId" \notin DOMAIN sv

\* runBootSequence logs BootLines system lines, then the welcome line.
BootLines == 7

BootDone == BootLines + 1

\* The boot effect, up to its first await: a restored session logs two
\* entries, a fresh one the first line of the boot sequence.
BootLog(h) ==
    IF Len(h) > 0
    THEN <<Entry("system", "RE-ESTABLISHING CONNECTION", 0), Entry("info", "SESSION RESTORED", 0)>>
    ELSE <<Entry("system", "BOOT", 0)>>

\* discarded records that a result of the pipeline arrived stale and was
\* dropped (the source drops it silently); arrived lists the URLs that
\* arrived while the segment was current, in the order of their first arrival,
\* and is emptied when another segment becomes current; gain is the
\* target that the initAudio of the pipeline's render would set.
IdlePipeline == [started |-> FALSE, audio |-> "none", images |-> <<>>,
                 firstImage |-> TRUE, finished |-> FALSE, discarded |-> FALSE,
                 arrived |-> <<>>, gain |-> 0]

\* generateSceneImage before it is called: attempts is the counter of the
\* loop, calls counts the generateContent requests made, delays lists the
\* waits, in seconds
NoRequest == [pc |-> "idle", attempts |-> 0, calls |-> 0, delays |-> <<>>]

\* useRef(null) in place of the line below
InitialRefNull(seg) == 0

\* useRef(currentSegment?.id || null), with 0 for null
InitialRef(seg) == seg.id

\* The state of a freshly loaded page: every request and every audio source
\* of the previous page is gone.
Boot(sv) ==
    \E deck \in (IF NeedsDeck(sv) THEN HostIds ELSE {0}) :
    LET s == LoadedSession(sv, deck) IN
    /\ log' = s.log \o BootLog(s.history)
    /\ hostId' = s.hostId
    /\ volume' = s.volume
    /\ isMuted' = s.isMuted
    /\ bootPc' = IF Len(s.history) > 0 THEN BootDone ELSE 1
    /\ history' = s.history
    /\ currentSegment' = s.currentSegment
    /\ imageUrls' = s.imageUrls
    /\ stats' = s.stats
    /\ inventory' = s.inventory
    /\ SaveOver(sv)
    /\ loadingStage' = "IDLE"
    /\ isBackgroundLoading' = FALSE
    /\ isPlaying' = FALSE
    /\ currentSegmentIdRef' = InitialRef(s.currentSegment)
    /\ turns' = <<>>
    /\ pipelines' = [s2 \in SegIds |-> IdlePipeline]
    /\ audioSourceRef' = 0
    /\ sources' = [s2 \in SegIds |-> "none"]
    /\ decoding' = {}
    /\ gainNodeRef' = <<>>
    /\ UNCHANGED nextId

Init ==
    /\ log = BootLog(<<>>)
    /\ bootPc = 1
    /\ history = <<>>
    /\ currentSegment = NullSegment
    /\ imageUrls = <<DEFAULT_IMAGE>>
    /\ stats = DefaultStats
    /\ inventory = <<>>
    /\ hostId = 1
    /\ volume = DefaultVolume
    /\ isMuted = FALSE
    /\ storageFull = FALSE
    /\ hasError = FALSE
    /\ saved = Snapshot(BootLog(<<>>), <<>>, NullSegment, <<DEFAULT_IMAGE>>, DefaultStats,
                        <<>>, 1, DefaultVolume, FALSE)
    /\ loadingStage = "IDLE"
    /\ isBackgroundLoading = FALSE
    /\ isPlaying = FALSE
    /\ currentSegmentIdRef = 0
    /\ turns = <<>>
    /\ pipelines = [s \in SegIds |-> IdlePipeline]
    /\ audioSourceRef = 0
    /\ sources = [s \in SegIds |-> "none"]
    /\ decoding = {}
    /\ gainNodeRef = <<>>
    /\ nextId = 1
    /\ events = 0
    /\ requests = [k \in 1..3 |-> NoRequest]

\* runBootSequence after one of its timers: the next line, or the welcome.
BootStep ==
    /\ bootPc < BootDone
    /\ log' = Append(log, IF bootPc < BootLines THEN Entry("system", "BOOT", 0)
                          ELSE Entry("info", "WELCOME", 0))
    /\ bootPc' = bootPc + 1
    /\ UNCHANGED <<history, currentSegment, imageUrls, stats, inventory, prefVars>>
    /\ Save
    /\ UNCHANGED <<loadingStage, isBackgroundLoading, currentSegmentIdRef, turns,
                   pipelines, audioVars, nextId>>

\* ---- audio playback manager ----
\* isMuted ? 0 : volume
TargetGain(muted, vol) == IF muted THEN 0 ELSE vol

\* initAudio of a render whose preferences give the gain target: the context
\* and its gain node are created when there is none
initAudio(node, target) == IF node = <<>> THEN <<target>> ELSE node

\* the audio volume effect, after a render that changed volume or isMuted
VolumeEffect(node, target) == IF node # <<>> THEN <<target>> ELSE node

\* AudioBufferSourceNode.stop(): a playing source stops and its ended event is
\* queued; on any other source the call throws or does nothing (caught).
StopSource(src, ref) ==
    IF ref # 0 /\ src[ref] = "playing" THEN [src EXCEPT ![ref] = "stopped"] ELSE src

\* stopAudio
stopAudio ==
    /\ sources' = StopSource(sources, audioSourceRef)
    /\ isPlaying' = IF audioSourceRef # 0 THEN FALSE ELSE isPlaying
    /\ UNCHANGED <<audioSourceRef, decoding>>

\* ---- turn engine ----
\* generateNextStorySegment: history.slice(-2)
LastTwo(h) == SubSeq(h, Max(1, Len(h) - 1), Len(h))

\* The first half of handleTurn, up to the await of the narrative request.
handleTurn(action) ==
    /\ Len(turns) < MaxInFlight
    /\ stopAudio
    /\ loadingStage' = "WRITING"
    /\ turns' = Append(turns, [action |-> action, stats |-> stats,
                               history |-> LastTwo(history), inventory |-> inventory,
                               gain |-> TargetGain(isMuted, volume)])

\* setHistory updater of handleTurn; the faulty variant puts the segment first
AppendSegmentFirst(prev, seg) == <<seg>> \o prev

AppendSegment(prev, seg) == Append(prev, seg)

\* setStats updater of handleTurn; the faulty variant has no lower clamp
ClampStatsNoFloor(prev, upd) ==
    [health |-> Min(100, prev.health + Delta(upd, "health")),
     wealth |-> prev.wealth + Delta(upd, "wealth"),
     xp |-> prev.xp + Delta(upd, "xp")]

ClampStats(prev, upd) ==
    [health |-> Min(100, Max(0, prev.health + Delta(upd, "health"))),
     wealth |-> Max(0, prev.wealth + Delta(upd, "wealth")),
     xp |-> prev.xp + Delta(upd, "xp")]

HasName(inv, name) == \E k \in DOMAIN inv : inv[k].name = name

FirstByName(inv, name) == CHOOSE k \in DOMAIN inv : inv[k].name = name /\ \A j \in 1..(k - 1) : inv[j].name # name

\* one step of newItems.forEach in the setInventory updater of handleTurn;
\* the faulty variant pushes without looking for the name
MergeItemPush(updated, newItem) == Append(updated, newItem)

MergeItem(updated, newItem) ==
    IF HasName(updated, newItem.name)
    THEN [updated EXCEPT ![FirstByName(updated, newItem.name)].quantity = @ + 1]
    ELSE Append(updated, newItem)

RECURSIVE MergeLoot(_, _)
MergeLoot(prev, newItems) ==
    IF newItems = <<>> THEN prev
    ELSE MergeLoot(MergeItem(prev, Head(newItems)), Tail(newItems))

\* the log of a committed turn: the terminal is cleared first
TurnLog(seg, died) ==
    <<Entry("system", "LOADING SEGMENT", 0)>>
    \o (IF Len(seg.loot) > 0 THEN <<Entry("success", "ITEMS ACQUIRED", 0)>> ELSE <<>>)
    \o <<Entry("narrative", "NARRATIVE", 0), Entry("info", "AVAILABLE PROTOCOLS", seg.options)>>
    \o (IF died THEN <<Entry("error", "CRITICAL FAILURE"  , 0), Entry("info", "TYPE RESET", 0)>>
        ELSE <<>>)

\* the death check of handleTurn reads the stats of its own render
DeathCheck(turnStats, seg) == (turnStats.health + Delta(seg.statUpdates, "health")) <= 0

\* triggerBackgroundGeneration up to its await: prompts.slice(0, 3)
StartedPipeline(seg) ==
    [started |-> TRUE, audio |-> "pending",
     images |-> [k \in 1..Min(3, seg.visualPrompts) |-> "pending"],
     firstImage |-> TRUE, finished |-> FALSE, discarded |-> FALSE, arrived |-> <<>>,
     gain |-> 0]

\* The finally block of handleTurn: setLoadingStage(LoadingStage.IDLE); the
\* faulty variant leaves the stage to the asset pipeline
StageAfterTurnKept(stage) == stage

StageAfterTurn(stage) == "IDLE"

\* The narrative request of turn i resolves with a segment: the rest of the
\* try block of handleTurn, and its finally.
NarrativeSuccess(i, p) ==
    /\ i \in DOMAIN turns
    /\ nextId <= MaxSegments
    /\ LET seg == MakeSegment(nextId, p)
           died == DeathCheck(turns[i].stats, seg)
       IN /\ log' = TurnLog(seg, died)
          /\ currentSegment' = seg
          /\ currentSegmentIdRef' = seg.id
          /\ history' = AppendSegment(history, seg)
          /\ stats' = IF seg.hasStatUpdates THEN ClampStats(stats, seg.statUpdates) ELSE stats
          /\ inventory' = IF Len(seg.loot) > 0 THEN MergeLoot(inventory, seg.loot) ELSE inventory
          /\ pipelines' = [s \in SegIds |-> IF s = seg.id
                                             THEN [StartedPipeline(seg) EXCEPT !.gain = turns[i].gain]
                                             ELSE [pipelines[s] EXCEPT !.arrived = <<>>]]
          /\ isBackgroundLoading' = TRUE
    /\ loadingStage' = StageAfterTurn(loadingStage)
    /\ turns' = RemoveAt(turns, i)
    /\ nextId' = nextId + 1
    /\ UNCHANGED <<imageUrls, audioVars, bootPc, prefVars>>
    /\ Save

\* the catch block of handleTurn; the faulty variant has cleared the terminal
\* before the request failed
FailureLogCleared(prev) ==
    <<Entry("error", "CONNECTION ERROR", 0), Entry("info", "RETRYING RECOMMENDED", 0)>>

FailureLog(prev) ==
    prev \o <<Entry("error", "CONNECTION ERROR", 0), Entry("info", "RETRYING RECOMMENDED", 0)>>

\* The narrative request of turn i fails: the catch block and the finally.
NarrativeFailure(i) ==
    /\ i \in DOMAIN turns
    /\ log' = FailureLog(log)
    /\ loadingStage' = StageAfterTurn(loadingStage)
    /\ turns' = RemoveAt(turns, i)
    /\ UNCHANGED <<history, currentSegment, imageUrls, stats, inventory, prefVars>>
    /\ Save
    /\ UNCHANGED <<isBackgroundLoading, currentSegmentIdRef, pipelines,
                   audioVars, nextId, bootPc>>

\* A click on an option shown in the log: handleTurn(opt.action)
ClickOption ==
    /\ \E k \in DOMAIN log : log[k].options > 0
    /\ handleTurn("option")
    /\ UNCHANGED <<sessionVars, saved, isBackgroundLoading, currentSegmentIdRef,
                   pipelines, nextId, bootPc, prefVars, gainNodeRef>>

\* ---- inventory ----
HasId(inv, id) == \E k \in DOMAIN inv : inv[k].id = id

IndexOfId(inv, id) == CHOOSE k \in DOMAIN inv : inv[k].id = id /\ \A j \in 1..(k - 1) : inv[j].id # id

\* setInventory updater of handleUseItem; the faulty variant never removes
\* an entry
UseOneDecrements(prev, id) ==
    IF HasId(prev, id)
    THEN [prev EXCEPT ![IndexOfId(prev, id)].quantity = @ - 1]
    ELSE prev

UseOne(prev, id) ==
    IF HasId(prev, id)
    THEN LET idx == IndexOfId(prev, id) IN
         IF prev[idx].quantity > 1
         THEN [prev EXCEPT ![idx].quantity = @ - 1]
         ELSE RemoveAt(prev, idx)
    ELSE prev

\* handleUseItem, heal branch
HealedHealth(health, effectValue) == Min(100, health + effectValue)

\* The USE button of inventory entry k.
handleUseItem(k) ==
    /\ k \in DOMAIN inventory
    /\ LET item == inventory[k] IN
       IF item.type = "consumable" /\ item.effectValue # 0
       THEN /\ stats' = [stats EXCEPT !.health = HealedHealth(stats.health, item.effectValue)]
            /\ log' = Append(log, Entry("success", "USING ITEM", 0))
            /\ inventory' = UseOne(inventory, item.id)
            /\ UNCHANGED <<history, currentSegment, imageUrls, prefVars>>
            /\ Save
            /\ UNCHANGED <<loadingStage, isBackgroundLoading, currentSegmentIdRef,
                           turns, pipelines, audioVars, nextId, bootPc>>
       ELSE /\ handleTurn("use item")
            /\ UNCHANGED <<sessionVars, saved, isBackgroundLoading,
                           currentSegmentIdRef, pipelines, nextId, bootPc, prefVars, gainNodeRef>>

\* ---- commands ----
\* What the player may type.  Normalise is input.trim().toLowerCase().
Inputs == {"clear", " CLS ", "exit", "reset", "Init", "start", "0", "1", "02", "9", "run"}

Normalise(input) ==
    CASE input = " CLS " -> "cls"
      [] input = "Init" -> "init"
      [] OTHER -> input

\* raw.match(/^(\d+)$/) and parseInt(match[1], 10); NoMatch when match is null
NoMatch == -1

ParseNumber(raw) ==
    CASE raw = "0" -> 0
      [] raw = "1" -> 1
      [] raw = "02" -> 2
      [] raw = "9" -> 9
      [] OTHER -> NoMatch

\* the tag that stands for the text of a command entry of the log
CommandTag(raw) ==
    IF raw \in {"reset", "restart", "wipe"} THEN "RESET"
    ELSE IF raw \in {"start", "init"} THEN "START"
    ELSE "INPUT"

\* The branch of handleInput an input takes and the action string it hands
\* to handleTurn: <<"option", n>> is currentSegment.options[n - 1].action,
\* <<"text", input>> the input itself, <<>> none.
\* Faulty variants: one never rejects start, one takes any number as an option.
DispatchNoReject(input, seg, hist) ==
    LET raw == Normalise(input)
        n == ParseNumber(raw)
    IN IF raw \in {"clear", "cls"} THEN [kind |-> "clear", action |-> <<>>]
       ELSE IF raw = "exit" THEN [kind |-> "exit", action |-> <<>>]
       ELSE IF raw \in {"reset", "restart", "wipe"} THEN [kind |-> "reset", action |-> <<>>]
       ELSE IF raw \in {"start", "init"} THEN [kind |-> "start", action |-> <<"init">>]
       ELSE IF seg.id # 0 /\ n # NoMatch /\ n - 1 >= 0 /\ n - 1 < seg.options
            THEN [kind |-> "turn", action |-> <<"option", n>>]
       ELSE [kind |-> "turn", action |-> <<"text", input>>]

DispatchNoRange(input, seg, hist) ==
    LET raw == Normalise(input)
        n == ParseNumber(raw)
    IN IF raw \in {"clear", "cls"} THEN [kind |-> "clear", action |-> <<>>]
       ELSE IF raw = "exit" THEN [kind |-> "exit", action |-> <<>>]
       ELSE IF raw \in {"reset", "restart", "wipe"} THEN [kind |-> "reset", action |-> <<>>]
       ELSE IF raw \in {"start", "init"}
            THEN IF Len(hist) > 0 THEN [kind |-> "rejected", action |-> <<>>]
                 ELSE [kind |-> "start", action |-> <<"init">>]
       ELSE IF seg.id # 0 /\ n # NoMatch
            THEN [kind |-> "turn", action |-> <<"option", n>>]
       ELSE [kind |-> "turn", action |-> <<"text", input>>]

Dispatch(input, seg, hist) ==
    LET raw == Normalise(input)
        n == ParseNumber(raw)
    IN IF raw \in {"clear", "cls"} THEN [kind |-> "clear", action |-> <<>>]
       ELSE IF raw = "exit" THEN [kind |-> "exit", action |-> <<>>]
       ELSE IF raw \in {"reset", "restart", "wipe"} THEN [kind |-> "reset", action |-> <<>>]
       ELSE IF raw \in {"start", "init"}
            THEN IF Len(hist) > 0 THEN [kind |-> "rejected", action |-> <<>>]
                 ELSE [kind |-> "start", action |-> <<"init">>]
       ELSE IF seg.id # 0 /\ n # NoMatch /\ n - 1 >= 0 /\ n - 1 < seg.options
            THEN [kind |-> "turn", action |-> <<"option", n>>]
       ELSE [kind |-> "turn", action |-> <<"text", input>>]

\* window.location.reload(): the page is loaded again from the stored record.
\* A state change made by the handler that reloads is written by the
\* persistence effect if the render is flushed before the page unloads.
Reload(stored, flushed, l) ==
    Boot(IF flushed /\ ~storageFull
         THEN Snapshot(l, history, currentSegment, imageUrls, stats, inventory,
                       hostId, volume, isMuted)
         ELSE stored)

\* TerminalInput.handleSubmit followed by handleInput
handleInput(input, confirm, flushed) ==
    /\ loadingStage # "WRITING"
    /\ LET raw == Normalise(input)
           logged == Append(log, Entry("command", CommandTag(raw), 0))
           branch == Dispatch(input, currentSegment, history)
       IN
       CASE branch.kind = "clear" ->
              /\ log' = <<>>
              /\ UNCHANGED <<history, currentSegment, imageUrls, stats, inventory, prefVars>>
              /\ Save
              /\ UNCHANGED <<loadingStage, isBackgroundLoading, currentSegmentIdRef,
                             turns, pipelines, audioVars, nextId, bootPc>>
         [] branch.kind = "exit" ->
              Reload(saved, flushed, logged)
         [] branch.kind = "reset" ->
              IF confirm
              THEN Reload(NoSave, flushed, logged)
              ELSE /\ log' = logged
                   /\ UNCHANGED <<history, currentSegment, imageUrls, stats, inventory, prefVars>>
                   /\ Save
                   /\ UNCHANGED <<loadingStage, isBackgroundLoading, currentSegmentIdRef,
                                  turns, pipelines, audioVars, nextId, bootPc>>
         [] branch.kind = "rejected" ->
              /\ log' = Append(logged, Entry("error", "SESSION ACTIVE", 0))
              /\ UNCHANGED <<history, currentSegment, imageUrls, stats, inventory, prefVars>>
              /\ Save
              /\ UNCHANGED <<loadingStage, isBackgroundLoading, currentSegmentIdRef,
                             turns, pipelines, audioVars, nextId, bootPc>>
         [] branch.kind = "start" ->
              \* startGame
              /\ log' = logged
              /\ gainNodeRef' = initAudio(gainNodeRef, TargetGain(isMuted, volume))
              /\ inventory' = <<StartMedkit>>
              /\ handleTurn(branch.action[1])
              /\ UNCHANGED <<history, currentSegment, imageUrls, stats, prefVars>>
              /\ Save
              /\ UNCHANGED <<isBackgroundLoading, currentSegmentIdRef, pipelines, nextId, bootPc>>
         [] OTHER ->
              /\ log' = logged
              /\ handleTurn(branch.action[1])
              /\ UNCHANGED <<history, currentSegment, imageUrls, stats, inventory, prefVars>>
              /\ Save
              /\ UNCHANGED <<isBackgroundLoading, currentSegmentIdRef, pipelines, nextId, bootPc,
                             gainNodeRef>>

\* resetGame from the RESET button
resetGame(confirm) ==
    IF confirm THEN Boot(NoSave)
    ELSE UNCHANGED <<sessionVars, saved, loadingStage, isBackgroundLoading,
                     currentSegmentIdRef, turns, pipelines, audioVars, nextId, bootPc, prefVars>>

\* ---- asset pipeline ----
\* setImageUrls updater of triggerBackgroundGeneration; the faulty variant
\* never replaces the carousel
ApplyImageAppend(prev, firstImage, url) ==
    IF url \in Range(prev) THEN prev ELSE Append(prev, url)

\* the faulty variant that does not look for the URL in the carousel
ApplyImageNoIncludes(prev, firstImage, url) ==
    IF firstImage THEN <<url>> ELSE Append(prev, url)

ApplyImage(prev, firstImage, url) ==
    IF firstImage THEN <<url>>
    ELSE IF url \in Range(prev) THEN prev
    ELSE Append(prev, url)

\* the staleness check: currentSegmentIdRef.current === segment.id; the faulty
\* variant applies every result
IsCurrentAlways(ref, segId) == TRUE

IsCurrent(ref, segId) == ref = segId

\* generateSceneImage of prompt k of segment s resolves with a picture.
ImageResolved(s, k, pic) ==
    /\ pipelines[s].started
    /\ k \in DOMAIN pipelines[s].images
    /\ pipelines[s].images[k] = "pending"
    /\ LET url == <<s, pic>> IN
       IF IsCurrent(currentSegmentIdRef, s)
       THEN /\ imageUrls' = ApplyImage(imageUrls, pipelines[s].firstImage, url)
            /\ pipelines' = [pipelines EXCEPT ![s].images[k] = "settled", ![s].firstImage = FALSE,
                                              ![s].arrived = IF url \in Range(@) THEN @
                                                             ELSE Append(@, url)]
       ELSE /\ imageUrls' = imageUrls
            /\ pipelines' = [pipelines EXCEPT ![s].images[k] = "settled", ![s].discarded = TRUE]
    /\ UNCHANGED <<log, history, currentSegment, stats, inventory, prefVars>>
    /\ IF imageUrls' # imageUrls \/ (IsCurrent(currentSegmentIdRef, s) /\ pipelines[s].firstImage)
       THEN Save ELSE UNCHANGED saved
    /\ UNCHANGED <<loadingStage, isBackgroundLoading, currentSegmentIdRef, turns,
                   audioVars, nextId, bootPc>>

\* generateSceneImage of prompt k of segment s throws after its retries; the
\* faulty variant clears the carousel
ImageFailedClears(s, k) ==
    /\ pipelines[s].started
    /\ k \in DOMAIN pipelines[s].images
    /\ pipelines[s].images[k] = "pending"
    /\ pipelines' = [pipelines EXCEPT ![s].images[k] = "settled"]
    /\ imageUrls' = <<>>
    /\ UNCHANGED <<log, history, currentSegment, stats, inventory, prefVars, saved,
                   loadingStage, isBackgroundLoading, currentSegmentIdRef, turns,
                   audioVars, nextId, bootPc>>

ImageFailed(s, k) ==
    /\ pipelines[s].started
    /\ k \in DOMAIN pipelines[s].images
    /\ pipelines[s].images[k] = "pending"
    /\ pipelines' = [pipelines EXCEPT ![s].images[k] = "settled"]
    /\ UNCHANGED <<sessionVars, saved, loadingStage, isBackgroundLoading,
                   currentSegmentIdRef, turns, audioVars, nextId, bootPc, prefVars>>

\* Promise.allSettled has resolved: the finally block of the pipeline; the
\* faulty variant never clears the flag
PipelineFinallyKeeps(s) ==
    /\ pipelines[s].started
    /\ ~pipelines[s].finished
    /\ \A k \in DOMAIN pipelines[s].images : pipelines[s].images[k] # "pending"
    /\ pipelines' = [pipelines EXCEPT ![s].finished = TRUE]
    /\ UNCHANGED <<sessionVars, saved, loadingStage, isBackgroundLoading, currentSegmentIdRef,
                   turns, audioVars, nextId, bootPc, prefVars>>

PipelineFinally(s) ==
    /\ pipelines[s].started
    /\ ~pipelines[s].finished
    /\ \A k \in DOMAIN pipelines[s].images : pipelines[s].images[k] # "pending"
    /\ pipelines' = [pipelines EXCEPT ![s].finished = TRUE]
    /\ isBackgroundLoading' = IF IsCurrent(currentSegmentIdRef, s) THEN FALSE
                              ELSE isBackgroundLoading
    /\ UNCHANGED <<sessionVars, saved, loadingStage, currentSegmentIdRef, turns,
                   audioVars, nextId, bootPc, prefVars>>

\* generateNarrativeAudio of segment s resolves: the staleness check, then
\* playAudio up to its await of decodeAudioData.
AudioResolved(s) ==
    /\ pipelines[s].started
    /\ pipelines[s].audio = "pending"
    /\ pipelines' = [pipelines EXCEPT ![s].audio = "settled"]
    /\ IF IsCurrent(currentSegmentIdRef, s)
       THEN /\ gainNodeRef' = initAudio(gainNodeRef, pipelines[s].gain)
            /\ sources' = StopSource(sources, audioSourceRef)
            /\ decoding' = decoding \cup {s}
       ELSE UNCHANGED <<sources, decoding, gainNodeRef>>
    /\ UNCHANGED <<sessionVars, saved, loadingStage, isBackgroundLoading,
                   currentSegmentIdRef, turns, audioSourceRef, isPlaying, nextId, bootPc, prefVars>>

\* generateNarrativeAudio of segment s throws: the catch of the audio promise;
\* the faulty variant reports the failure in the terminal
AudioFailedLogged(s) ==
    /\ pipelines[s].started
    /\ pipelines[s].audio = "pending"
    /\ pipelines' = [pipelines EXCEPT ![s].audio = "settled"]
    /\ log' = Append(log, Entry("error", "AUDIO ERROR", 0))
    /\ UNCHANGED <<history, currentSegment, imageUrls, stats, inventory, prefVars>>
    /\ Save
    /\ UNCHANGED <<loadingStage, isBackgroundLoading, currentSegmentIdRef, turns,
                   audioVars, nextId, bootPc>>

AudioFailed(s) ==
    /\ pipelines[s].started
    /\ pipelines[s].audio = "pending"
    /\ pipelines' = [pipelines EXCEPT ![s].audio = "settled"]
    /\ UNCHANGED <<sessionVars, saved, loadingStage, isBackgroundLoading,
                   currentSegmentIdRef, turns, audioVars, nextId, bootPc, prefVars>>

\* playAudio after its await: the decoded buffer is started.
DecodeDone(s) ==
    /\ s \in decoding
    /\ decoding' = decoding \ {s}
    /\ sources' = [sources EXCEPT ![s] = "playing"]
    /\ audioSourceRef' = s
    /\ isPlaying' = TRUE
    /\ UNCHANGED <<sessionVars, saved, loadingStage, isBackgroundLoading,
                   currentSegmentIdRef, turns, pipelines, nextId, bootPc, prefVars, gainNodeRef>>

\* decodeAudioData rejects: the catch block of playAudio.
DecodeFailed(s) ==
    /\ s \in decoding
    /\ decoding' = decoding \ {s}
    /\ UNCHANGED <<sessionVars, saved, loadingStage, isBackgroundLoading,
                   currentSegmentIdRef, turns, pipelines, audioSourceRef,
                   sources, isPlaying, nextId, bootPc, prefVars, gainNodeRef>>

\* source.onended: after the source played to its end, or after stop().
SourceEnded(s) ==
    /\ sources[s] \in {"playing", "stopped"}
    /\ sources' = [sources EXCEPT ![s] = "ended"]
    /\ isPlaying' = FALSE
    /\ UNCHANGED <<sessionVars, saved, loadingStage, isBackgroundLoading,
                   currentSegmentIdRef, turns, pipelines, audioSourceRef,
                   decoding, nextId, bootPc, prefVars, gainNodeRef>>

\* ---- audio preferences ----
\* the mute button: setIsMuted(!isMuted)
ToggleMute ==
    /\ isMuted' = ~isMuted
    /\ UNCHANGED <<log, history, currentSegment, imageUrls, stats, inventory, hostId, volume>>
    /\ Save
    /\ gainNodeRef' = VolumeEffect(gainNodeRef, TargetGain(isMuted', volume'))
    /\ UNCHANGED <<loadingStage, isBackgroundLoading, currentSegmentIdRef, turns,
                   pipelines, audioSourceRef, sources, decoding, isPlaying, nextId, bootPc>>

\* the volume slider: setVolume(v), and setIsMuted(false) when muted
SliderChange(v) ==
    /\ v # volume \/ isMuted
    /\ volume' = v
    /\ isMuted' = FALSE
    /\ UNCHANGED <<log, history, currentSegment, imageUrls, stats, inventory, hostId>>
    /\ Save
    /\ gainNodeRef' = VolumeEffect(gainNodeRef, TargetGain(isMuted', volume'))
    /\ UNCHANGED <<loadingStage, isBackgroundLoading, currentSegmentIdRef, turns,
                   pipelines, audioSourceRef, sources, decoding, isPlaying, nextId, bootPc>>

\* ---- the store ----
\* everything of the page but the store and the error boundary
pageVars == <<sessionVars, prefVars, loadingStage, isBackgroundLoading, currentSegmentIdRef,
              turns, pipelines, audioVars, nextId, bootPc>>

\* localStorage starts to refuse writes (quota exceeded, permission denied)
StorageFills ==
    /\ ~storageFull
    /\ storageFull' = TRUE
    /\ UNCHANGED <<pageVars, saved, hasError, events, requests>>

\* localStorage accepts writes again
StorageFrees ==
    /\ storageFull
    /\ storageFull' = FALSE
    /\ UNCHANGED <<pageVars, saved, hasError, events, requests>>

\* the forms of a record that JSON.stringify(stateToSave) never produces
CorruptForms == {"unparseable", "null", "badlog", "badhistory"}

\* the record sv, damaged into form f
Corrupted(sv, f) ==
    CASE f \in {"unparseable", "null"} -> [present |-> TRUE, form |-> f]
      [] f = "badlog" -> [k \in (DOMAIN sv) \ {"log"} |-> IF k = "form" THEN f ELSE sv[k]]
      [] f = "badhistory" -> [k \in (DOMAIN sv) \ {"history"} |-> IF k = "form" THEN f ELSE sv[k]]

\* The record under STORAGE_KEY is replaced by one this page did not write
\* (another version of the program, a truncated write, an edit by hand).
RecordCorrupted(f) ==
    /\ saved.present
    /\ saved.form = "ok"
    /\ saved' = Corrupted(saved, f)
    /\ UNCHANGED <<pageVars, storageFull, hasError, events, requests>>

\* the fields that loadState fills in when a record lacks them
MigratedFields == {"inventory", "hostId", "volume", "isMuted"}

\* the record sv without the fields of missing
Without(sv, missing) == [k \in (DOMAIN sv) \ missing |-> sv[k]]

\* The record under STORAGE_KEY was written by an earlier version of the
\* program, which did not store the fields of missing.
RecordLegacy(missing) ==
    /\ saved.present
    /\ saved.form = "ok"
    /\ missing # {}
    /\ missing \subseteq DOMAIN saved
    /\ saved' = Without(saved, missing)
    /\ UNCHANGED <<pageVars, storageFull, hasError, events, requests>>

\* ---- the image collaborator ----
\* generateSceneImage: the retry loop, for the three prompts of one pipeline
maxAttempts == 3

\* while (attempts < maxAttempts): the next generateContent request, or the
\* throw after the loop
Iterate(r) ==
    IF r.attempts < maxAttempts THEN [r EXCEPT !.pc = "attempt", !.calls = @ + 1]
    ELSE [r EXCEPT !.pc = "thrown"]

\* generateSceneImage is called: the loop is entered and the first
\* generateContent request is made
generateSceneImage(k) ==
    /\ requests[k].pc = "idle"
    /\ requests' = [requests EXCEPT ![k] = Iterate(@)]
    /\ UNCHANGED <<pageVars, saved, storageFull, hasError, events>>

\* the request of the running attempt answers with image data: return
AttemptReturns(k) ==
    /\ requests[k].pc = "attempt"
    /\ requests' = [requests EXCEPT ![k].pc = "returned"]
    /\ UNCHANGED <<pageVars, saved, storageFull, hasError, events>>

\* The request of the running attempt throws or answers without image data:
\* the catch block.  The faulty variant does not count the attempt.
AttemptThrowsUncounted(k) ==
    /\ requests[k].pc = "attempt"
    /\ requests' = [requests EXCEPT ![k].pc = "backoff",
                                    ![k].delays = Append(@, requests[k].attempts + 1)]
    /\ UNCHANGED <<pageVars, saved, storageFull, hasError, events>>

AttemptThrows(k) ==
    /\ requests[k].pc = "attempt"
    /\ LET n == requests[k].attempts + 1 IN                       \* attempts++
       requests' = IF n >= maxAttempts
                   THEN [requests EXCEPT ![k].attempts = n, ![k].pc = "thrown"]
                   ELSE [requests EXCEPT ![k].attempts = n, ![k].pc = "backoff",
                                         ![k].delays = Append(@, n)]  \* setTimeout(resolve, 1000 * attempts)
    /\ UNCHANGED <<pageVars, saved, storageFull, hasError, events>>

\* the timer of the backoff fires: the loop condition, then the next attempt
BackoffElapsed(k) ==
    /\ requests[k].pc = "backoff"
    /\ requests' = [requests EXCEPT ![k] = Iterate(@)]
    /\ UNCHANGED <<pageVars, saved, storageFull, hasError, events>>

RetryNext ==
    \/ \E k \in 1..3 : generateSceneImage(k)
    \/ \E k \in 1..3 : AttemptReturns(k)
    \/ \E k \in 1..3 : AttemptThrows(k)
    \/ \E k \in 1..3 : BackoffElapsed(k)

\* ---- the error boundary ----
\* the entry componentDidCatch pushes
CrashEntry == [type |-> "error", content |-> "SYSTEM RECOVERED FROM CRASH", options |-> 0,
               isRestored |-> TRUE]

\* the try block of componentDidCatch, on the record sv; the faulty variant
\* removes a record it cannot use
CrashCaptureWipes(sv) ==
    IF ~sv.present THEN sv
    ELSE IF sv.form \in {"unparseable", "null", "badlog"} THEN NoSave
    ELSE [sv EXCEPT !.log = Append(@, CrashEntry)]

\* the faulty variant that records nothing
CrashCaptureSilent(sv) == sv

CrashCapture(sv) ==
    IF ~sv.present THEN sv                                   \* if (saved)
    ELSE IF sv.form = "unparseable" THEN sv                  \* JSON.parse throws
    ELSE IF sv.form \in {"null", "badlog"} THEN sv           \* parsed && Array.isArray(parsed.log)
    ELSE [sv EXCEPT !.log = Append(@, CrashEntry)]

\* A render of the page throws: getDerivedStateFromError and componentDidCatch.
\* The page is unmounted, its state is kept here as it was.
componentDidCatch ==
    /\ ~hasError
    /\ hasError' = TRUE
    /\ saved' = IF storageFull THEN saved ELSE CrashCapture(saved)
    /\ UNCHANGED <<pageVars, storageFull>>

\* [ RESUME SIGNAL ]
handleSoftReset ==
    /\ hasError
    /\ hasError' = FALSE
    /\ Boot(saved)
    /\ UNCHANGED storageFull

\* [ HARD RESET ]: localStorage.clear()
handleHardReset ==
    /\ hasError
    /\ hasError' = FALSE
    /\ Boot(NoSave)
    /\ UNCHANGED storageFull

\* Something the player does: one more event of the run.  The player of the
\* model waits for the end of the boot sequence before acting.
Player(A) ==
    /\ ~hasError
    /\ bootPc = BootDone
    /\ events < MaxEvents
    /\ events' = events + 1
    /\ A
    /\ UNCHANGED <<storageFull, hasError, requests>>

\* Something the collaborators or the browser do.
World(A) == ~hasError /\ A /\ UNCHANGED <<events, storageFull, hasError, requests>>

\* what the player does
PlayerNext ==
    \/ \E input \in Inputs, confirm \in BOOLEAN, flushed \in BOOLEAN :
          Player(handleInput(input, confirm, flushed))
    \/ Player(ClickOption)
    \/ \E k \in 1..(2 * MaxSegments + 1) : Player(handleUseItem(k))
    \/ \E confirm \in BOOLEAN : Player(resetGame(confirm))

\* the narrative collaborator
NarrativeNext ==
    \/ \E i \in 1..MaxInFlight, p \in Payloads : World(NarrativeSuccess(i, p))
    \/ \E i \in 1..MaxInFlight : World(NarrativeFailure(i))

\* the image collaborator and the end of a pipeline
ImageNext ==
    \/ \E s \in SegIds, k \in 1..3, pic \in Pictures : World(ImageResolved(s, k, pic))
    \/ \E s \in SegIds, k \in 1..3 : World(ImageFailed(s, k))
    \/ \E s \in SegIds : World(PipelineFinally(s))

\* the audio collaborator, the decoder and the audio output
AudioNext ==
    \/ \E s \in SegIds : World(AudioResolved(s))
    \/ \E s \in SegIds : World(AudioFailed(s))
    \/ \E s \in SegIds : World(DecodeDone(s))
    \/ \E s \in SegIds : World(DecodeFailed(s))
    \/ \E s \in SegIds : World(SourceEnded(s))

\* the timers of the boot sequence
BootNext == World(BootStep)

\* collaborators whose image requests all fail and whose audio fails, or
\* arrives and cannot be decoded
FailuresNext ==
    \/ \E s \in SegIds, k \in 1..3 : World(ImageFailed(s, k))
    \/ \E s \in SegIds : World(PipelineFinally(s))
    \/ \E s \in SegIds : World(AudioResolved(s))
    \/ \E s \in SegIds : World(AudioFailed(s))
    \/ \E s \in SegIds : World(DecodeFailed(s))

\* the audio controls
PrefsNext ==
    \/ Player(ToggleMute)
    \/ \E v \in Volumes : Player(SliderChange(v))

\* the store, as its environment changes it
StorageNext ==
    \/ StorageFills
    \/ StorageFrees
    \/ \E f \in CorruptForms : RecordCorrupted(f)

\* One more event of the run that the error boundary takes part in.
Fault(A) == events < MaxEvents /\ events' = events + 1 /\ A /\ UNCHANGED requests

\* a rendering fault and the two ways out of it
CrashNext ==
    \/ Fault(componentDidCatch)
    \/ Fault(handleSoftReset)
    \/ Fault(handleHardReset)

Next ==
    \/ PlayerNext \/ BootNext \/ NarrativeNext \/ ImageNext \/ AudioNext
    \/ PrefsNext \/ StorageNext \/ CrashNext

Spec == Init /\ [][Next]_vars

\* The image requests and the audio requests of a segment do not read or
\* write each other's state, so each is also checked on its own: a collaborator
\* whose requests are left pending takes no step.
\* The turn engine: no asset request is answered.
SpecTurns == Init /\ [][PlayerNext \/ BootNext \/ NarrativeNext]_vars

\* The turn engine and the image requests: no audio request is answered.
SpecImages == Init /\ [][PlayerNext \/ BootNext \/ NarrativeNext \/ ImageNext]_vars

\* The turn engine and the audio manager: no image request is answered.
SpecAudio == Init /\ [][PlayerNext \/ BootNext \/ NarrativeNext \/ AudioNext]_vars

\* The turn engine, the audio controls, the store and the error boundary: no
\* asset request is answered.
SpecStore ==
    Init /\ [][PlayerNext \/ BootNext \/ NarrativeNext \/ PrefsNext \/ StorageNext \/ CrashNext]_vars

\* The turn engine and the error boundary, on a store that accepts writes.
SpecCrash == Init /\ [][PlayerNext \/ BootNext \/ NarrativeNext \/ CrashNext]_vars

\* A player who starts a session and clicks options, and an image collaborator
\* that settles every request: each image request that is pending is
\* eventually answered and each finally block eventually runs.
TurnsNext ==
    \/ \E input \in {"start", "1"} : Player(handleInput(input, FALSE, FALSE))
    \/ Player(ClickOption)

SpecFlag ==
    /\ Init
    /\ [][TurnsNext \/ BootNext \/ NarrativeNext \/ ImageNext]_vars
    /\ WF_vars(ImageNext)

\* The image requests of one pipeline on their own: every generateContent
\* request that was made is answered and every backoff timer fires.
SpecRetry ==
    /\ Init
    /\ [][RetryNext]_vars
    /\ \A k \in 1..3 : WF_vars(AttemptReturns(k) \/ AttemptThrows(k)) /\ WF_vars(BackoffElapsed(k))

\* records of earlier versions of the program
LegacyNext == \E missing \in SUBSET MigratedFields : RecordLegacy(missing)

\* The turn engine on a store that may hold a record of an earlier version.
SpecLegacy == Init /\ [][PlayerNext \/ BootNext \/ NarrativeNext \/ LegacyNext]_vars

\* The turn engine, the image requests, the audio controls and the error
\* boundary, on a store that accepts every write and is written by nothing
\* but the page.
SpecPersist ==
    Init /\ [][PlayerNext \/ BootNext \/ NarrativeNext \/ ImageNext \/ PrefsNext \/ CrashNext]_vars

\* The turn engine, the audio manager and the audio controls.
SpecGain == Init /\ [][PlayerNext \/ BootNext \/ NarrativeNext \/ AudioNext \/ PrefsNext]_vars

\* The turn engine with failing asset collaborators.
SpecFailures == Init /\ [][PlayerNext \/ BootNext \/ NarrativeNext \/ FailuresNext]_vars

\* ======================= properties =======================
\* the images in a carousel that were generated for segment s
ImagesOf(s, urls) == {u \in Range(urls) : u[1] = s}

\* a step in which an image request of s settles while s is not current
StaleSettle(s) ==
    /\ currentSegmentIdRef # s
    /\ pipelines[s].started /\ pipelines'[s].started
    /\ pipelines'[s].images # pipelines[s].images

\* a step that commits a new segment
Commit == Len(history') = Len(history) + 1

\* a step in which a narrative request fails
Failure == events' = events /\ nextId' = nextId /\ Len(turns') = Len(turns) - 1

\* a step in which handleTurn is entered
Submit == Len(turns') = Len(turns) + 1

\* a factory reset: the page boots without a stored session
FactoryReset == bootPc' = 1

PlayingSources == {s \in SegIds : sources[s] = "playing"}

\* C1: an image result of the pipeline of segment A that settles while A is
\* not the current segment is discarded: the step leaves imageUrls unchanged,
\* for every result and every interleaving with later commits.
C1_StaleImageDiscarded ==
    [][\A s \in SegIds : StaleSettle(s) => imageUrls' = imageUrls]_vars

\* C1 witness: a result of segment 1 was discarded after segment 2 became
\* current, and an image of segment 2 is on display.
C1_Witness ==
    /\ pipelines[1].discarded
    /\ currentSegmentIdRef = 2
    /\ ImagesOf(2, imageUrls) # {}

\* C2 as stated: after an image result of A settles while another segment is
\* current, the carousel holds no image generated for A.
C2_NoImageOfStaleSegment ==
    [][\A s \in SegIds : StaleSettle(s) => ImagesOf(s, imageUrls') = {}]_vars

\* C2 amended: while A is not the current segment no step adds an image
\* generated for A to the carousel; the images of A it still holds were applied
\* while A was current.
C2_NoImageAddedWhenStale ==
    [][\A s \in SegIds :
          (currentSegmentIdRef # s /\ currentSegmentIdRef' # s)
              => ImagesOf(s, imageUrls') \subseteq ImagesOf(s, imageUrls)]_vars

\* C2 witness: a result of segment 1 was discarded while the carousel still
\* shows an image of segment 1 that was applied when it was current.
C2_Witness ==
    /\ pipelines[1].discarded
    /\ currentSegmentIdRef = 2
    /\ ImagesOf(1, imageUrls) # {}

\* C3 as stated: whenever an audio source is started, its segment is the
\* current segment.
C3_AudioStartsOnlyForCurrent ==
    [][\A s \in SegIds :
          (sources[s] # "playing" /\ sources'[s] = "playing") => currentSegmentIdRef' = s]_vars

\* C4 as stated: at most one audio source is started and neither stopped nor
\* ended.
C4_AtMostOneSource == Cardinality(PlayingSources) <= 1

\* C5: currentSegment is absent and history is empty, or currentSegment is the
\* last element of history.
C5_CurrentIsLastOfHistory ==
    IF Len(history) = 0 THEN currentSegment = NullSegment
    ELSE currentSegment = Last(history)

\* C5 witness: of two overlapping turns one has committed while the other,
\* submitted before that commit, is still in flight.
C5_Witness ==
    /\ Len(history) = 2
    /\ currentSegment = Last(history)
    /\ Len(turns) = 1
    /\ turns[1].stats.xp # stats.xp

\* C6: the stats after a committed turn are the clamped sums of the stats
\* before it and the deltas of the segment: health in [0,100], wealth >= 0.
C6_ClampedStats ==
    [][Commit =>
        LET seg == currentSegment'
            dh == IF seg.hasStatUpdates THEN Delta(seg.statUpdates, "health") ELSE 0
            dw == IF seg.hasStatUpdates THEN Delta(seg.statUpdates, "wealth") ELSE 0
        IN /\ stats'.health = Min(100, Max(0, stats.health + dh))
           /\ stats'.wealth = Max(0, stats.wealth + dw)
           /\ stats'.health \in 0..100
           /\ stats'.wealth >= 0]_vars

\* C6 witness: the defaults {100,50,0} with the deltas {-10,0,15}.
C6_Witness ==
    /\ Len(history) = 1
    /\ history[1].statUpdates = [health |-> -10, wealth |-> 0, xp |-> 15]
    /\ stats = [health |-> 90, wealth |-> 50, xp |-> 15]

\* C7: a failing narrative request changes nothing of history,
\* currentSegment, stats, inventory and imageUrls, and appends one error entry
\* and its retry hint to the log; entering handleTurn changes no history,
\* currentSegment, stats or imageUrls either.
C7_NoPartialCommit ==
    [][/\ Failure =>
            /\ UNCHANGED <<history, currentSegment, stats, inventory, imageUrls>>
            /\ Len(log') = Len(log) + 2
            /\ SubSeq(log', 1, Len(log)) = log
            /\ log'[Len(log) + 1].type = "error"
            /\ log'[Len(log) + 2].type = "info"
       /\ Submit => UNCHANGED <<history, currentSegment, stats, imageUrls>>]_vars

\* C7 witness: a turn failed after a segment had been committed.
C7_Witness ==
    /\ Len(history) = 1
    /\ Len(log) >= 2
    /\ log[Len(log) - 1] = Entry("error", "CONNECTION ERROR", 0)
    /\ turns = <<>>

\* C8 as stated: no image or audio request is issued for a segment whose
\* commit leaves health <= 0.
C8_NoAssetsAfterDeath ==
    [][(Commit /\ stats'.health <= 0) => ~pipelines'[currentSegment'.id].started]_vars

\* C9 as stated: once health <= 0 no step other than a factory reset raises
\* it or commits a further segment.
C9_TerminalIsAbsorbing ==
    [][(stats.health <= 0 /\ ~FactoryReset)
          => (stats'.health <= 0 /\ history' = history)]_vars

\* the quantity held of the items named n
RECURSIVE QuantityOf(_, _)
QuantityOf(inv, n) ==
    IF inv = <<>> THEN 0
    ELSE (IF Head(inv).name = n THEN Head(inv).quantity ELSE 0) + QuantityOf(Tail(inv), n)

EntriesOf(inv, n) == Cardinality({k \in DOMAIN inv : inv[k].name = n})

\* C10: inventory entries are unique by name; a commit adds, for every name,
\* one to the quantity held per loot item of that name, in a single entry.
C10_UniqueNames ==
    /\ [](\A i, j \in DOMAIN inventory : inventory[i].name = inventory[j].name => i = j)
    /\ [][Commit =>
            \A n \in {"Prybar", "Mag-Tape Bandage", "Standard Medkit"} :
               /\ EntriesOf(inventory', n) <= 1
               /\ QuantityOf(inventory', n)
                     = QuantityOf(inventory, n) + EntriesOf(currentSegment'.loot, n)]_vars

\* C10 witness: "Prybar" acquired in two turns is one entry of quantity 2.
C10_Witness ==
    /\ Len(history) = 2
    /\ EntriesOf(inventory, "Prybar") = 1
    /\ QuantityOf(inventory, "Prybar") = 2

\* the segments whose generated images are in a carousel
SegmentsShown(urls) == {u[1] : u \in Range(urls)} \ {DEFAULT_IMAGE[1]}

\* C11: all generated images in imageUrls were produced for one and the same
\* segment.
C11_OneSegmentInCarousel == Cardinality(SegmentsShown(imageUrls)) <= 1

\* C11 witness: the carousel showed an image of segment 1 and now shows two
\* images, both of segment 2.
C11_Witness ==
    /\ ~pipelines[1].firstImage
    /\ currentSegmentIdRef = 2
    /\ Len(imageUrls) = 2
    /\ SegmentsShown(imageUrls) = {2}

\* C12: while no image of a segment has been applied, no step of its pipeline
\* (its start, a failed or discarded request, its end) changes imageUrls, and
\* while that segment is current no step at all changes it: when every image
\* request of the segment has failed, imageUrls is what it was before the
\* pipeline started.
C12_AllFailedKeepsCarousel ==
    [][\A s \in SegIds :
          (pipelines'[s].started /\ pipelines'[s].firstImage
             /\ (pipelines'[s] # pipelines[s] \/ currentSegmentIdRef' = s))
              => imageUrls' = imageUrls]_vars

\* C12 witness: the three image requests of segment 2 have failed and its
\* pipeline has ended; the carousel still shows the image of segment 1.
C12_Witness ==
    /\ currentSegmentIdRef = 2
    /\ pipelines[2].finished
    /\ pipelines[2].firstImage
    /\ Len(pipelines[2].images) = 3
    /\ ImagesOf(1, imageUrls) # {}
    /\ ImagesOf(2, imageUrls) = {}

\* C13: the step in which the narrative request of a turn settles (commit,
\* death or failure) leaves the engine IDLE, and with no narrative request
\* outstanding the engine is IDLE, whether or not the image and audio
\* requests of the segment have been answered.
C13_SettledTurnIsIdle ==
    /\ [](turns = <<>> => loadingStage = "IDLE")
    /\ [][(Commit \/ Failure) => loadingStage' = "IDLE"]_vars

\* C13 witness: a turn has committed and the engine is IDLE while the audio
\* request and the image requests of its segment are all unanswered.
C13_Witness ==
    /\ turns = <<>>
    /\ loadingStage = "IDLE"
    /\ currentSegmentIdRef = 1
    /\ pipelines[1].audio = "pending"
    /\ Len(pipelines[1].images) = 3
    /\ \A k \in 1..3 : pipelines[1].images[k] = "pending"
    /\ ~pipelines[1].finished

\* C14 as stated: at most one narrative request is outstanding, and the
\* engine is WRITING exactly while one is outstanding.
C14_OneNarrativeRequest ==
    /\ Len(turns) <= 1
    /\ loadingStage = "WRITING" <=> Len(turns) > 0

\* a step of the asset pipeline of a segment or of the audio decoder
AssetStep ==
    /\ events' = events
    /\ turns' = turns
    /\ bootPc' = bootPc
    /\ pipelines' # pipelines \/ decoding' # decoding

\* C15: no failure of an image request, of the audio request or of the audio
\* decoding changes the stage of the turn engine, the log, history,
\* currentSegment, stats or inventory.
C15_AssetFailuresContained ==
    [][AssetStep => UNCHANGED <<loadingStage, log, history, currentSegment, stats, inventory>>]_vars

\* C15 witness: the three image requests of segment 1 failed, its audio was
\* lost, the pipeline ended, and the turn is complete with the engine IDLE.
C15_Witness ==
    /\ currentSegmentIdRef = 1
    /\ pipelines[1].finished
    /\ pipelines[1].firstImage
    /\ Len(pipelines[1].images) = 3
    /\ pipelines[1].audio = "settled"
    /\ decoding = {}
    /\ sources[1] = "none"
    /\ loadingStage = "IDLE"
    /\ Len(history) = 1

\* the record the persistence effect writes for the state in memory
CurrentSnapshot ==
    Snapshot(log, history, currentSegment, imageUrls, stats, inventory, hostId, volume, isMuted)

\* C16: loading the record saved for the Session State in memory gives that
\* state back: the log with the same entries in the same order, each marked
\* isRestored, and the same history, currentSegment, imageUrls, stats,
\* inventory, hostId, volume and isMuted.
C16_RoundTrip ==
    \A deck \in HostIds :
        LET r == LoadedSession(CurrentSnapshot, deck) IN
        /\ Len(r.log) = Len(log)
        /\ \A k \in DOMAIN log :
              /\ r.log[k].isRestored
              /\ [r.log[k] EXCEPT !.isRestored = log[k].isRestored] = log[k]
        /\ r.history = history
        /\ r.currentSegment = currentSegment
        /\ r.imageUrls = imageUrls
        /\ r.stats = stats
        /\ r.inventory = inventory
        /\ r.hostId = hostId
        /\ r.volume = volume
        /\ r.isMuted = isMuted

\* C16 witness: a session with a committed turn and the volume at 0 has been
\* saved and loaded again.
C16_Witness ==
    /\ volume = 0
    /\ Len(history) = 1
    /\ inventory # <<>>
    /\ log # <<>>
    /\ log[1].isRestored
    /\ saved = CurrentSnapshot

\* the session a page starts with when load() returned none
FreshSession ==
    /\ log = BootLog(<<>>)
    /\ history = <<>>
    /\ currentSegment = NullSegment
    /\ imageUrls = <<DEFAULT_IMAGE>>
    /\ stats = DefaultStats
    /\ inventory = <<>>

\* a record that is absent, unparseable, or whose log or history is no array
Unusable(sv) == ~sv.present \/ sv.form \in CorruptForms

\* C17: load() of an absent record, of an unparseable one and of one whose
\* log or history is not a sequence returns none, and the page that the error
\* boundary reloads on such a record starts from the fresh defaults.
C17_CorruptRecordIsNoSession ==
    /\ [](/\ loadState(NoSave, 1) = NoSave
          /\ \A f \in CorruptForms :
                (saved.present /\ saved.form = "ok") => loadState(Corrupted(saved, f), 1) = NoSave)
    /\ [][(hasError /\ ~hasError' /\ Unusable(saved)) => FreshSession']_vars

\* C17 witness: the stored record holds a session with history but its log is
\* not an array; the page was loaded on it and runs a fresh session.
C17_Witness ==
    /\ saved.present
    /\ saved.form = "badlog"
    /\ Len(saved.history) >= 1
    /\ ~hasError
    /\ FreshSession

\* the command entry of a typed reset
ResetCommand == Entry("command", "RESET", 0)

\* a step in which a typed reset was confirmed and the page loaded again
\* after the render of the command
TypedResetReloaded ==
    /\ events' = events + 1
    /\ ~hasError
    /\ Len(log') > Len(log)
    /\ SubSeq(log', 1, Len(log) + 1) = MarkRestored(Append(log, ResetCommand))

\* a step in which the RESET button or a typed reset was confirmed and the
\* page loaded again
ConfirmedReset == TypedResetReloaded \/ (events' = events + 1 /\ ~hasError /\ bootPc' = 1 /\ log' = BootLog(<<>>))

\* C18 as stated: after a confirmed factory reset the page loads no session
\* and starts from the defaults, however the reset was issued.
C18_ResetDestroysSession ==
    [][ConfirmedReset => (FreshSession' /\ saved'.history = <<>>)]_vars

\* C19: a save on a store that refuses writes writes nothing and stops
\* nothing, and every state change made while the store accepts writes (the
\* next one after a failure included) leaves the record equal to the state in
\* memory.
C19_FailedSaveIsSwallowed ==
    /\ [][(storageFull /\ storageFull' /\ pageVars' # pageVars) => saved' \in {saved, NoSave}]_vars
    /\ [][(~storageFull /\ ~storageFull' /\ ~hasError /\ ~hasError'
            /\ <<sessionVars, prefVars>>' # <<sessionVars, prefVars>>)
           => saved' = CurrentSnapshot']_vars

\* C19 witness: a turn was committed while the store refused the write: the
\* record is still the one of the empty session and the engine is IDLE.
C19_Witness ==
    /\ storageFull
    /\ Len(history) = 1
    /\ saved.present
    /\ saved.form = "ok"
    /\ saved.history = <<>>
    /\ loadingStage = "IDLE"
    /\ ~hasError

\* a step in which the error boundary captures a rendering fault
Crash == ~hasError /\ hasError'

\* C20: crash capture changes nothing of the page; on an absent record, an
\* unparseable one or one whose log is no array it writes nothing; on a valid
\* record, when the store accepts the write, it appends one error entry to
\* the persisted log and changes no other field.
C20_CrashCaptureTolerant ==
    [][Crash =>
        /\ UNCHANGED pageVars
        /\ (~saved.present \/ saved.form \in {"unparseable", "null", "badlog"}) => saved' = saved
        /\ (saved.present /\ saved.form = "ok" /\ ~storageFull) =>
              /\ Len(saved'.log) = Len(saved.log) + 1
              /\ SubSeq(saved'.log, 1, Len(saved.log)) = saved.log
              /\ Last(saved'.log).type = "error"
              /\ saved' = [saved EXCEPT !.log = saved'.log]]_vars

\* C20 witness: a fault was captured on the valid record of a session with a
\* committed turn.
C20_Witness ==
    /\ hasError
    /\ saved.present
    /\ saved.form = "ok"
    /\ Len(saved.history) >= 1
    /\ Last(saved.log) = CrashEntry

\* the page that a reload starts from the record sv
LoadedFrom(sv) ==
    \E deck \in HostIds :
        LET s == LoadedSession(sv, deck) IN
        /\ log' = s.log \o BootLog(s.history)
        /\ history' = s.history
        /\ currentSegment' = s.currentSegment
        /\ imageUrls' = s.imageUrls
        /\ stats' = s.stats
        /\ inventory' = s.inventory
        /\ hostId' = s.hostId

\* a step in which the player leaves the fallback screen
Recovery == hasError /\ ~hasError'

\* C21: a fault captured against a valid record appends the crash entry to
\* the persisted log and keeps the rest of the record; nothing writes the
\* record while the fallback screen is shown; leaving the fallback screen
\* either loads the session of the record, whose log ends with the crash
\* entry (soft recovery), or loads no session (hard recovery).
C21_RecoveryAfterCapture ==
    /\ [][(Crash /\ ~Unusable(saved)) =>
            /\ LoadedSession(saved', hostId).log = Append(MarkRestored(saved.log), CrashEntry)
            /\ [LoadedSession(saved', hostId) EXCEPT !.log = <<>>]
                  = [LoadedSession(saved, hostId) EXCEPT !.log = <<>>]]_vars
    /\ [][(hasError /\ hasError') => saved' = saved]_vars
    /\ [][Recovery =>
            \/ /\ LoadedFrom(saved)
               /\ Last(LoadedSession(saved, hostId).log) = CrashEntry
               /\ CrashEntry \in Range(log')
            \/ /\ FreshSession'
               /\ saved'.history = <<>>
               /\ loadState(NoSave, hostId) = NoSave]_vars

C21_Witness ==
    /\ ~hasError
    /\ Len(history) >= 1
    /\ CrashEntry \in Range(log)
    /\ CrashEntry \in Range(saved.log)

\* C22 as stated: a call of stopAudio (handleTurn makes one on every
\* submission) raises nothing, leaves no source playing and isPlaying false,
\* whether or not a source was ever started or has ended, and a second call
\* right after it changes nothing.
C22_StopIdempotentTotal ==
    [][Submit =>
        /\ PlayingSources' = {}
        /\ ~isPlaying'
        /\ StopSource(sources', audioSourceRef') = sources']_vars

\* C23: when every image request settles and the player starts no further
\* turn, isBackgroundLoading becomes false and stays false, also when a
\* pipeline was superseded by a later turn and left the flag alone.
C23_FlagEventuallyCleared == <>[](~isBackgroundLoading)

\* C23 witness: the pipeline of segment 1 was superseded, a result of it was
\* dropped, both pipelines have ended and the flag is clear.
C23_Witness ==
    /\ ~isBackgroundLoading
    /\ currentSegmentIdRef = 2
    /\ pipelines[1].discarded /\ pipelines[1].finished
    /\ pipelines[2].finished

\* a call of generateSceneImage that has returned or thrown
Settled(k) == requests[k].pc \in {"returned", "thrown"}

\* C24: a call of generateSceneImage makes at most three generateContent
\* requests; it returns at the first one that succeeds, so every request
\* before it failed; after a return or a throw it makes no further request;
\* it throws exactly when three requests in a row have failed; and when every
\* request is answered it returns or throws.
C24_AtMostThreeAttempts ==
    /\ [](\A k \in 1..3 :
            /\ requests[k].calls <= 3
            /\ requests[k].pc = "returned" => requests[k].calls = requests[k].attempts + 1
            /\ requests[k].pc = "thrown" <=> (requests[k].attempts = 3 /\ requests[k].calls = 3)
            /\ requests[k].pc \in {"attempt", "backoff"} => requests[k].attempts < 3)
    /\ [][\A k \in 1..3 : Settled(k) => requests'[k] = requests[k]]_vars
    /\ \A k \in 1..3 : (requests[k].pc = "attempt") ~> Settled(k)

\* C24 witness: one call returned at its first request, one at its third
\* after two failures, and one threw after three failures.
C24_Witness ==
    /\ requests[1].pc = "returned" /\ requests[1].calls = 1
    /\ requests[2].pc = "returned" /\ requests[2].calls = 3
    /\ requests[3].pc = "thrown" /\ requests[3].calls = 3

\* a step in which the player typed a command whose log entry carries tag and
\* the page was not loaded again
TypedCommand(tag) ==
    /\ events' = events + 1
    /\ Len(log') > Len(log)
    /\ SubSeq(log', 1, Len(log) + 1) = Append(log, Entry("command", tag, 0))

\* what handleInput does with an input in the present state
Branch(input) == Dispatch(input, currentSegment, history)

\* C25: handleInput matches clear, exit, reset, start/init, a numeric
\* selection and free text in that order.  A bare integer N with a current
\* segment and 1 <= N <= number of options forwards the N-th option's action;
\* a number out of range, a number without a current segment and any other
\* text are forwarded as typed.  clear, exit, reset and a rejected start issue
\* no narrative request; a start without a session and every other input do.
C25_CommandOrder ==
    /\ [](/\ Branch("clear").kind = "clear" /\ Branch(" CLS ").kind = "clear"
          /\ Branch("exit").kind = "exit"
          /\ Branch("reset").kind = "reset"
          /\ \A input \in {"start", "Init"} :
                Branch(input).kind = IF Len(history) > 0 THEN "rejected" ELSE "start"
          /\ \A pair \in {<<"0", 0>>, <<"1", 1>>, <<"02", 2>>, <<"9", 9>>} :
                Branch(pair[1]) =
                    IF currentSegment # NullSegment /\ 1 <= pair[2] /\ pair[2] <= currentSegment.options
                    THEN [kind |-> "turn", action |-> <<"option", pair[2]>>]
                    ELSE [kind |-> "turn", action |-> <<"text", pair[1]>>]
          /\ Branch("run") = [kind |-> "turn", action |-> <<"text", "run">>]
          /\ \A input \in Inputs :
                Branch(input).kind \in {"clear", "exit", "reset", "rejected"} => Branch(input).action = <<>>)
    /\ [][/\ (TypedCommand("INPUT") => (Submit /\ Last(turns').action \in {"option", "text"}))
          /\ (TypedCommand("START") /\ Len(history) = 0) => (Submit /\ Last(turns').action = "init")
          /\ (TypedCommand("START") /\ Len(history) > 0) => turns' = turns
          /\ TypedCommand("RESET") => turns' = turns
          /\ (log' = <<>> /\ log # <<>>) => turns' = turns]_vars

\* C25 witness: the player typed a number in range and the option's action
\* was forwarded.
C25_Witness ==
    /\ Len(turns) >= 1
    /\ Last(turns).action = "option"
    /\ Last(log) = Entry("command", "INPUT", 0)
    /\ currentSegment.options >= 1
    /\ Branch("9").action = <<"text", "9">>

\* C26: start or init typed while a session exists appends the command and
\* one error entry to the log, issues no narrative request and leaves
\* history, currentSegment, stats, inventory and imageUrls as they were.
C26_StartRejectedWhenActive ==
    /\ [](Len(history) > 0 => \A input \in {"start", "Init"} : Branch(input).kind = "rejected")
    /\ [][(TypedCommand("START") /\ Len(history) > 0) =>
            /\ log' = log \o <<Entry("command", "START", 0), Entry("error", "SESSION ACTIVE", 0)>>
            /\ turns' = turns
            /\ UNCHANGED <<history, currentSegment, stats, inventory, imageUrls>>]_vars

C26_Witness ==
    /\ Len(history) >= 1
    /\ Len(log) >= 2
    /\ Last(log) = Entry("error", "SESSION ACTIVE", 0)
    /\ turns = <<>>

\* C27: load() of a valid record fills in exactly the fields the record
\* lacks: inventory becomes empty, hostId a freshly generated id, volume the
\* default and isMuted false; every field the record has is loaded with its
\* stored value, among them a volume of 0, isMuted false and an empty
\* imageUrls.
C27_MigratesAbsentFieldsOnly ==
    (saved.present /\ saved.form = "ok" /\ MigratedFields \subseteq DOMAIN saved) =>
        \A missing \in SUBSET MigratedFields, vol \in Volumes, muted \in BOOLEAN,
           urls \in {saved.imageUrls, <<>>}, deck \in HostIds :
            LET full == [saved EXCEPT !.volume = vol, !.isMuted = muted, !.imageUrls = urls]
                s == LoadedSession(Without(full, missing), deck)
            IN /\ s.inventory = IF "inventory" \in missing THEN <<>> ELSE full.inventory
               /\ s.hostId = IF "hostId" \in missing THEN deck ELSE full.hostId
               /\ s.volume = IF "volume" \in missing THEN DefaultVolume ELSE vol
               /\ s.isMuted = IF "isMuted" \in missing THEN FALSE ELSE muted
               /\ s.log = MarkRestored(full.log)
               /\ s.history = full.history
               /\ s.currentSegment = full.currentSegment
               /\ s.imageUrls = urls
               /\ s.stats = full.stats

\* C27 witness: the page was loaded from a record without inventory whose
\* session had collected loot, and starts with the history of the record and
\* an empty inventory.
C27_Witness ==
    /\ Len(history) = 1
    /\ history[1].loot # <<>>
    /\ inventory = <<>>
    /\ log # <<>>
    /\ log[1].isRestored
    /\ saved = CurrentSnapshot

\* C28: hostId changes in no step but a confirmed factory reset: no turn,
\* command, item use or asset result changes it, and the record always holds
\* the hostId of the page, so a reload gives the same one.
C28_HostIdStable ==
    /\ [](\A deck \in HostIds : LoadedSession(saved, deck).hostId = hostId)
    /\ [][hostId' # hostId => (ConfirmedReset /\ FreshSession')]_vars

\* C28 witness: a factory reset gave a new hostId, and a session started
\* after it was saved and loaded again with that hostId.
C28_Witness ==
    /\ hostId = 2
    /\ Len(history) >= 1
    /\ log # <<>>
    /\ log[1].isRestored
    /\ saved.hostId = 2

\* C29 as stated: xp is never negative, whatever xp changes the narratives
\* carry.
C29_XpNonNegative == stats.xp >= 0

\* the entries that announce the end of the session
TerminalEntries == <<Entry("error", "CRITICAL FAILURE", 0), Entry("info", "TYPE RESET", 0)>>

\* C30 as stated: a committed turn logs the terminal entries exactly when
\* the health that results from its stat update is 0, also when health
\* changed between the submission of the turn and the arrival of its
\* narrative.
C30_DeathDecidedOnResult ==
    [][Commit =>
        ((Len(log') >= 2 /\ SubSeq(log', Len(log') - 1, Len(log')) = TerminalEntries)
            <=> stats'.health = 0)]_vars

\* C31 as stated: the narrative request issued by a submission carries the
\* last two entries of history, the stats and the inventory that the session
\* has once the submitting handler has run; the request of start carries the
\* starting inventory.
C31_RequestCarriesCurrentState ==
    [][Submit =>
        /\ Last(turns').history = LastTwo(history')
        /\ Last(turns').stats = stats'
        /\ Last(turns').inventory = inventory']_vars

\* the requests of the pipeline of segment s that have not settled
Outstanding(s) ==
    {<<"image", k>> : k \in {j \in DOMAIN pipelines[s].images : pipelines[s].images[j] = "pending"}}
    \cup (IF pipelines[s].audio = "pending" THEN {<<"audio", 0>>} ELSE {})

\* C32 as stated: while isBackgroundLoading is false, no image request and no
\* audio request of the current segment is outstanding.
C32_FlagCoversAllWork ==
    (~isBackgroundLoading /\ currentSegmentIdRef # 0) => Outstanding(currentSegmentIdRef) = {}

\* C33 as stated: isPlaying is true exactly while a started source has
\* neither ended nor been stopped.
C33_PlayingTracksSource == isPlaying <=> (PlayingSources # {})

\* C34: on a store that accepts every write, the record equals the Session
\* State in memory whenever the page is mounted, so after every change of
\* log, history, currentSegment, imageUrls, stats, inventory, volume or
\* isMuted; and a step that changes the record without changing the Session
\* State is a crash capture or the wipe of a recovery.
C34_WriteThrough ==
    /\ [](~hasError => saved = CurrentSnapshot)
    /\ [][(~hasError /\ ~hasError' /\ <<sessionVars, prefVars>>' # <<sessionVars, prefVars>>)
            => saved' = CurrentSnapshot']_vars
    /\ [][(saved' # saved /\ UNCHANGED <<sessionVars, prefVars>>) => (Crash \/ Recovery)]_vars

\* C34 witness: an image was applied, the volume was set to 0, and the
\* record holds both.
C34_Witness ==
    /\ ~hasError
    /\ volume = 0
    /\ imageUrls # <<DEFAULT_IMAGE>>
    /\ saved.present
    /\ saved.volume = 0
    /\ saved.imageUrls = imageUrls

\* C35: once a result of the current segment has been applied, imageUrls is
\* the sequence of the URLs that arrived for it while it was current, in
\* arrival order and without repetitions: the first one replaced the
\* carousel, each later one was appended unless already there, failed
\* requests added nothing; and imageUrls never holds a URL twice.
C35_CarouselIsArrivals ==
    /\ \A s \in SegIds :
          (currentSegmentIdRef = s /\ pipelines[s].arrived # <<>>)
              => imageUrls = pipelines[s].arrived
    /\ \A i, j \in DOMAIN imageUrls : imageUrls[i] = imageUrls[j] => i = j

\* C35 witness: the three requests of the current segment have settled and
\* brought two different pictures; the carousel holds these two.
C35_Witness ==
    /\ currentSegmentIdRef = 1
    /\ pipelines[1].finished
    /\ Len(pipelines[1].images) = 3
    /\ Len(pipelines[1].arrived) = 2
    /\ Len(imageUrls) = 2

\* C36 as stated: after its n-th failed attempt an image request waits n
\* units, for n = 1, 2 and 3, and it is counted as failed only after the
\* third wait.
C36_LinearBackoff ==
    \A k \in 1..3 :
        /\ requests[k].delays = [n \in 1..requests[k].attempts |-> n]
        /\ requests[k].pc = "thrown" => requests[k].delays = <<1, 2, 3>>

\* a step in which a consumable was used
ItemUsed ==
    /\ events' = events + 1
    /\ log' = Append(log, Entry("success", "USING ITEM", 0))

\* C37 as stated: the use of a consumable leaves health at
\* min(100, health + effectValue), inside [0,100] and not below the health
\* before the use, whatever integer the effectValue of the item is.
C37_UseKeepsHealthInRange ==
    [][ItemUsed =>
        /\ \E k \in DOMAIN inventory :
              /\ inventory[k].type = "consumable"
              /\ stats'.health = Min(100, stats.health + inventory[k].effectValue)
        /\ stats'.health \in 0..100
        /\ stats'.health >= stats.health]_vars

\* C38: every inventory entry has quantity >= 1; the use of a consumable
\* held with quantity > 1 lowers that quantity by one, the use of one held
\* with quantity 1 removes the entry, both leaving the other entries alone;
\* and the use of an item that is not in the inventory leaves the inventory
\* as it is.
C38_QuantityAtLeastOne ==
    /\ [](\A k \in DOMAIN inventory : inventory[k].quantity >= 1)
    /\ [](\A id \in 0..(10 * MaxSegments + 9) :
            (\A k \in DOMAIN inventory : inventory[k].id # id) => UseOne(inventory, id) = inventory)
    /\ [][ItemUsed =>
            \E k \in DOMAIN inventory :
                /\ inventory[k].type = "consumable"
                /\ inventory' = IF inventory[k].quantity > 1
                                THEN [inventory EXCEPT ![k].quantity = @ - 1]
                                ELSE RemoveAt(inventory, k)]_vars

\* C38 witness: the bandage was found twice and used once; the medkit has
\* not been used.
C38_Witness ==
    /\ Len(history) = 2
    /\ HasName(inventory, "Standard Medkit")
    /\ QuantityOf(inventory, "Mag-Tape Bandage") = 1
    /\ EntriesOf(inventory, "Mag-Tape Bandage") = 1
    /\ \A i \in 1..2 : \E j \in DOMAIN history[i].loot : history[i].loot[j].name = "Mag-Tape Bandage"
    /\ Last(log) = Entry("success", "USING ITEM", 0)

\* C39 as stated: while a source is playing, the target of the gain is 0 if
\* isMuted and volume otherwise.
C39_GainReflectsPreferences ==
    PlayingSources # {} => gainNodeRef = <<TargetGain(isMuted, volume)>>

\* C40: the id held in currentSegmentIdRef is the id of currentSegment, and
\* both are absent together.
C40_RefIsCurrentSegment == currentSegmentIdRef = currentSegment.id

\* C40 witness: a reloaded page that restored segment 2 as the current
\* segment: no pipeline of this page has started.
C40_Witness ==
    /\ currentSegment.id = 2
    /\ currentSegmentIdRef = 2
    /\ \A s \in SegIds : pipelines[s] = IdlePipeline
====
